---- MODULE Spec2Model ----
(***************************************************************************)
(* Model of pkg/experiments/experiments.go: the experiment pipeline Run,   *)
(* with its helpers setExperimentCfg, createNewContainer and               *)
(* createMPIContainer, and the functions Pruning and GetOutputFilename.    *)
(*                                                                         *)
(* Run is a sequential program.  Every call of an external collaborator    *)
(* is one action whose result (success or error) is chosen                 *)
(* nondeterministically; the code between two calls belongs to the action  *)
(* of the call that precedes it.                                           *)
(***************************************************************************)
EXTENDS Integers, Sequences, FiniteSets, TLC

VARIABLES
    persistent,        \* sysCfg.Persistent != ""
    buildPrivilege,    \* syConfig.BuildPrivilege
    nopriv,            \* sysCfg.Nopriv
    containerPath,     \* exp.Container.Path as seen by Run (caller supplied)
    fs,                \* the paths that exist on the filesystem
    pc,                \* position in Run
    dirIdx,            \* which directory setExperimentCfg is handling
    expRes,            \* Run's local expRes
    execRes,           \* Run's local execRes
    err,               \* Run's local err
    res,               \* the local res of createNewContainer/createMPIContainer
    deferred,          \* the deferred uninstall has been registered
    provision,         \* branch taken by the "Prepare the container image" stage
    launched,          \* what launcher.Run handed back, if it was called
    calls,             \* the collaborator calls made so far, in order
    ret,               \* the values Run returned
    experiments,       \* Pruning: argument experiments
    existingResults,   \* Pruning: argument existingResults
    experimentsToRun,  \* Pruning: the slice returned
    prunedAgain,       \* Pruning applied to its own result
    ppc,               \* position of the Pruning driver
    round,             \* which derivation of the configuration is running
    mpiImplem,         \* GetOutputFilename: argument mpiImplem
    netPipe,           \* sysCfg.NetPipe
    imb,               \* sysCfg.IMB
    outputFile,        \* sysCfg.OutputFile
    outErr,            \* the error GetOutputFilename returned
    opc                \* position of the GetOutputFilename driver

runVars == <<persistent, buildPrivilege, nopriv, containerPath, fs, pc, dirIdx,
             expRes, execRes, err, res, deferred, provision, launched, calls, ret,
             round>>
pruneVars == <<experiments, existingResults, experimentsToRun, prunedAgain, ppc>>
outVars == <<mpiImplem, netPipe, imb, outputFile, outErr, opc>>
vars == <<runVars, pruneVars, outVars>>

----------------------------------------------------------------------------
(* Errors.  An error is the sequence of the message parts it is made of,   *)
(* outermost context first; the nil error is the empty sequence.           *)

NilErr == <<>>

\* What the verb %s prints for an error value.
FormatErr(e) == IF e = NilErr THEN <<"%!s(<nil>)">> ELSE e

\* fmt.Errorf("<ctx>: %s", e)
Errorf(ctx, e) == <<ctx>> \o FormatErr(e)

\* fmt.Errorf("<msg>") with no argument
ErrorNew(msg) == <<msg>>

Range(s) == {s[i] : i \in 1..Len(s)}

\* The zero value of advexec.Result and of results.Result
ZeroExec == [err |-> NilErr, out |-> "none"]
ZeroExp == [pass |-> FALSE, note |-> ""]

----------------------------------------------------------------------------
(* Paths *)

HostBuildDir == "hostBuildDir"
HostScratchDir == "hostScratchDir"
ContainerBuildDir == "containerBuildDir"
ContainerScratchDir == "containerScratchDir"

\* the four directories in the order setExperimentCfg handles them
Dirs == <<HostBuildDir, HostScratchDir, ContainerBuildDir, ContainerScratchDir>>

\* filepath.Join(InstallDir, Name): myContainerMPICfg.Container.Path
DerivedPath == "installDir/container.sif"

\* some other path the caller may have put in exp.Container.Path
OtherPath == "elsewhere/image.sif"

AllPaths == Range(Dirs) \cup {DerivedPath, OtherPath}

\* util.PathExists / util.FileExists
PathExists(p) == p \in fs

Call(op, ok) == [op |-> op, ok |-> ok]

\* os.MkdirAll(d, 0755) as an entry of the call log
MkdirOp(d) == "MkdirAll " \o d

\* the underlying error a failing collaborator reports
ErrOf(op) == <<op \o " error">>

----------------------------------------------------------------------------
(* Run *)

InitRun ==
    /\ persistent \in BOOLEAN
    /\ buildPrivilege \in BOOLEAN
    /\ nopriv \in BOOLEAN
    /\ containerPath \in {DerivedPath, OtherPath, ""}
    /\ fs \in SUBSET AllPaths
    /\ pc = "cfg"
    /\ dirIdx = 1
    /\ expRes = ZeroExp
    /\ execRes = ZeroExec
    /\ err = NilErr
    /\ res = ZeroExec
    /\ deferred = FALSE
    /\ provision = "none"
    /\ launched = [called |-> FALSE, exp |-> ZeroExp, exec |-> ZeroExec]
    /\ calls = <<>>
    /\ ret = [done |-> FALSE, bool |-> FALSE, exp |-> ZeroExp, exec |-> ZeroExec]
    /\ round = 1

PruneIdle ==
    /\ experiments = <<>>
    /\ existingResults = <<>>
    /\ experimentsToRun = <<>>
    /\ prunedAgain = <<>>
    /\ ppc = "idle"

OutIdle ==
    /\ mpiImplem = ""
    /\ netPipe = FALSE
    /\ imb = FALSE
    /\ outputFile = ""
    /\ outErr = NilErr
    /\ opc = "idle"

Init == InitRun /\ PruneIdle /\ OutIdle

\* the return statements handing back the pass flag as the boolean
ReturnMirrorsPass(e, x) ==
    /\ ret' = [done |-> TRUE, bool |-> e.pass, exp |-> e, exec |-> x]
    /\ pc' = IF deferred THEN "defer" ELSE "returned"

\* "return false, expRes, execRes": the results are evaluated, then the
\* deferred function (if registered) runs before Run gives control back.
Return(e, x) ==
    /\ ret' = [done |-> TRUE, bool |-> FALSE, exp |-> e, exec |-> x]
    /\ pc' = IF deferred THEN "defer" ELSE "returned"

\* setExperimentCfg calling MkdirAll without testing the path first
SetExperimentCfgAlwaysMkdir ==
    /\ pc = "cfg"
    /\ LET d == Dirs[dirIdx]
           next == IF dirIdx = Len(Dirs) THEN "load" ELSE "cfg"
       IN \E ok \in BOOLEAN :
            /\ calls' = Append(calls, Call(MkdirOp(d), ok))
            /\ IF ok
               THEN /\ fs' = fs \cup {d}
                    /\ pc' = next
                    /\ dirIdx' = IF dirIdx = Len(Dirs) THEN dirIdx ELSE dirIdx + 1
                    /\ UNCHANGED <<expRes, execRes, err, ret>>
               ELSE LET e == Errorf("failed to create " \o d, ErrOf("MkdirAll"))
                        x == [execRes EXCEPT !.err =
                                Errorf("failed to set experiment's configuration", e)]
                        r == [expRes EXCEPT !.pass = FALSE]
                    IN /\ err' = e
                       /\ execRes' = x
                       /\ expRes' = r
                       /\ Return(r, x)
                       /\ UNCHANGED <<fs, dirIdx>>
    /\ UNCHANGED <<persistent, buildPrivilege, nopriv, containerPath, res,
                   deferred, provision, launched, round, pruneVars, outVars>>

\* setExperimentCfg dropping the error of MkdirAll and going on
SetExperimentCfgIgnoreErr ==
    /\ pc = "cfg"
    /\ LET d == Dirs[dirIdx]
           next == IF dirIdx = Len(Dirs) THEN "load" ELSE "cfg"
       IN /\ pc' = next
          /\ dirIdx' = IF dirIdx = Len(Dirs) THEN dirIdx ELSE dirIdx + 1
          /\ UNCHANGED <<expRes, execRes, err, ret>>
          /\ IF PathExists(d)
             THEN UNCHANGED <<fs, calls>>
             ELSE \E ok \in BOOLEAN :
                    /\ calls' = Append(calls, Call(MkdirOp(d), ok))
                    /\ fs' = IF ok THEN fs \cup {d} ELSE fs
    /\ UNCHANGED <<persistent, buildPrivilege, nopriv, containerPath, res,
                   deferred, provision, launched, round, pruneVars, outVars>>

\* setExperimentCfg: one of the four "if !util.PathExists(dir) { MkdirAll }"
\* blocks; an error aborts the derivation and Run returns.
SetExperimentCfg ==
    /\ pc = "cfg"
    /\ LET d == Dirs[dirIdx]
           next == IF dirIdx = Len(Dirs) THEN "load" ELSE "cfg"
       IN IF PathExists(d)
          THEN /\ pc' = next
               /\ dirIdx' = IF dirIdx = Len(Dirs) THEN dirIdx ELSE dirIdx + 1
               /\ UNCHANGED <<fs, calls, expRes, execRes, err, ret>>
          ELSE \E ok \in BOOLEAN :
                 /\ calls' = Append(calls, Call(MkdirOp(d), ok))
                 /\ IF ok
                    THEN /\ fs' = fs \cup {d}
                         /\ pc' = next
                         /\ dirIdx' = IF dirIdx = Len(Dirs) THEN dirIdx ELSE dirIdx + 1
                         /\ UNCHANGED <<expRes, execRes, err, ret>>
                    ELSE LET e == Errorf("failed to create " \o d, ErrOf("MkdirAll"))
                             x == [execRes EXCEPT !.err =
                                     Errorf("failed to set experiment's configuration", e)]
                             r == [expRes EXCEPT !.pass = FALSE]
                         IN /\ err' = e
                            /\ execRes' = x
                            /\ expRes' = r
                            /\ Return(r, x)
                            /\ UNCHANGED <<fs, dirIdx>>
    /\ UNCHANGED <<persistent, buildPrivilege, nopriv, containerPath, res,
                   deferred, provision, launched, round, pruneVars, outVars>>

\* jm.Detect() and builder.Load(&myHostMPICfg.Implem)
LoadBuilder ==
    /\ pc = "load"
    /\ \E ok \in BOOLEAN :
         /\ calls' = calls \o <<Call("Detect", TRUE), Call("Load", ok)>>
         /\ IF ok
            THEN /\ err' = NilErr
                 /\ pc' = "install"
                 /\ UNCHANGED <<expRes, execRes, ret>>
            ELSE LET x == [execRes EXCEPT !.err =
                             Errorf("unable to load a builder", ErrOf("Load"))]
                     r == [expRes EXCEPT !.pass = FALSE]
                 IN /\ err' = ErrOf("Load")
                    /\ execRes' = x
                    /\ expRes' = r
                    /\ Return(r, x)
    /\ UNCHANGED <<persistent, buildPrivilege, nopriv, containerPath, fs, dirIdx,
                   res, deferred, provision, launched, round, pruneVars, outVars>>

\* InstallOnHost returning at once on an error, without the persister
InstallOnHostNoSave ==
    /\ pc = "install"
    /\ \E ok \in BOOLEAN :
         /\ calls' = Append(calls, Call("InstallOnHost", ok))
         /\ IF ok
            THEN /\ execRes' = [err |-> NilErr, out |-> "InstallOnHost"]
                 /\ deferred' = ~persistent
                 /\ pc' = "provision"
                 /\ UNCHANGED <<expRes, ret>>
            ELSE LET x == [err |-> ErrorNew("failed to install MPI on host"),
                           out |-> "InstallOnHost"]
                     r == [expRes EXCEPT !.pass = FALSE]
                 IN /\ execRes' = x
                    /\ expRes' = r
                    /\ deferred' = deferred
                    /\ Return(r, x)
    /\ UNCHANGED <<persistent, buildPrivilege, nopriv, containerPath, fs, dirIdx,
                   err, res, provision, launched, round, pruneVars, outVars>>

\* InstallOnHost deferring the uninstall whatever the persistent setting
InstallOnHostAlwaysDefer ==
    /\ pc = "install"
    /\ \E ok \in BOOLEAN :
         /\ calls' = Append(calls, Call("InstallOnHost", ok))
         /\ IF ok
            THEN /\ execRes' = [err |-> NilErr, out |-> "InstallOnHost"]
                 /\ deferred' = TRUE
                 /\ pc' = "provision"
            ELSE /\ execRes' = [err |-> ErrorNew("failed to install MPI on host"),
                                out |-> "InstallOnHost"]
                 /\ deferred' = deferred
                 /\ pc' = "save_install"
    /\ UNCHANGED <<persistent, buildPrivilege, nopriv, containerPath, fs, dirIdx,
                   expRes, err, res, provision, launched, ret, round, pruneVars, outVars>>

\* b.InstallOnHost(...) and what Run does with its result: on an error the
\* error is replaced and the diagnostic persister is called next; on success
\* the uninstall is deferred unless the run is persistent.
InstallOnHost ==
    /\ pc = "install"
    /\ \E ok \in BOOLEAN :
         /\ calls' = Append(calls, Call("InstallOnHost", ok))
         /\ IF ok
            THEN /\ execRes' = [err |-> NilErr, out |-> "InstallOnHost"]
                 /\ deferred' = ~persistent
                 /\ pc' = "provision"
            ELSE /\ execRes' = [err |-> ErrorNew("failed to install MPI on host"),
                                out |-> "InstallOnHost"]
                 /\ deferred' = deferred
                 /\ pc' = "save_install"
    /\ UNCHANGED <<persistent, buildPrivilege, nopriv, containerPath, fs, dirIdx,
                   expRes, err, res, provision, launched, ret, round, pruneVars, outVars>>

\* launcher.SaveErrorDetails after a failed host install, then the return
SaveErrorDetailsInstall ==
    /\ pc = "save_install"
    /\ \E ok \in BOOLEAN :
         LET e == IF ok THEN NilErr ELSE ErrOf("SaveErrorDetails")
             x == IF ok THEN execRes
                  ELSE [execRes EXCEPT !.err = Errorf("failed to save error details", e)]
             r == [expRes EXCEPT !.pass = FALSE]
         IN /\ calls' = Append(calls, Call("SaveErrorDetails", ok))
            /\ err' = e
            /\ execRes' = x
            /\ expRes' = r
            /\ Return(r, x)
    /\ UNCHANGED <<persistent, buildPrivilege, nopriv, containerPath, fs, dirIdx,
                   res, deferred, provision, launched, round, pruneVars, outVars>>

\* The provisioning choice testing the image first: an existing image is
\* skipped whatever the privilege, and the pull happens only without one.
PrepareContainerImageSkipFirst ==
    /\ pc = "provision"
    /\ IF PathExists(containerPath)
       THEN /\ provision' = "skip"
            /\ UNCHANGED <<res, execRes>>
            /\ pc' = "launch"
       ELSE IF buildPrivilege \/ nopriv
            THEN IF persistent /\ PathExists(DerivedPath)
                 THEN /\ provision' = "skip_persistent"
                      /\ res' = ZeroExec
                      /\ execRes' = ZeroExec
                      /\ pc' = "launch"
                 ELSE /\ provision' = "build"
                      /\ res' = ZeroExec
                      /\ execRes' = execRes
                      /\ pc' = "cmc_load"
            ELSE /\ provision' = "pull"
                 /\ UNCHANGED <<res, execRes>>
                 /\ pc' = "pull"
    /\ UNCHANGED <<persistent, buildPrivilege, nopriv, containerPath, fs, dirIdx,
                   expRes, err, deferred, launched, calls, ret, round, pruneVars, outVars>>

\* "Prepare the container image": the choice between build, skip and pull,
\* including the early return at the top of createNewContainer.
PrepareContainerImage ==
    /\ pc = "provision"
    /\ IF buildPrivilege \/ nopriv
       THEN IF ~PathExists(containerPath)
            THEN IF persistent /\ PathExists(DerivedPath)
                 THEN \* createNewContainer returns the zero Result
                      /\ provision' = "skip_persistent"
                      /\ res' = ZeroExec
                      /\ execRes' = ZeroExec
                      /\ pc' = "launch"
                 ELSE /\ provision' = "build"
                      /\ res' = ZeroExec
                      /\ execRes' = execRes
                      /\ pc' = "cmc_load"
            ELSE /\ provision' = "skip"
                 /\ UNCHANGED <<res, execRes>>
                 /\ pc' = "launch"
       ELSE /\ provision' = "pull"
            /\ UNCHANGED <<res, execRes>>
            /\ pc' = "pull"
    /\ UNCHANGED <<persistent, buildPrivilege, nopriv, containerPath, fs, dirIdx,
                   expRes, err, deferred, launched, calls, ret, round, pruneVars, outVars>>

\* PullContainerImage whose error is dropped: the launcher runs all the same
PullContainerImageIgnoreErr ==
    /\ pc = "pull"
    /\ \E ok \in BOOLEAN :
         /\ calls' = Append(calls, Call("PullContainerImage", ok))
         /\ err' = IF ok THEN NilErr ELSE ErrOf("PullContainerImage")
         /\ fs' = IF ok THEN fs \cup {DerivedPath} ELSE fs
         /\ pc' = "launch"
         /\ UNCHANGED <<expRes, execRes, ret>>
    /\ UNCHANGED <<persistent, buildPrivilege, nopriv, containerPath, dirIdx,
                   res, deferred, provision, launched, round, pruneVars, outVars>>

\* container.PullContainerImage
PullContainerImage ==
    /\ pc = "pull"
    /\ \E ok \in BOOLEAN :
         /\ calls' = Append(calls, Call("PullContainerImage", ok))
         /\ IF ok
            THEN /\ err' = NilErr
                 /\ fs' = fs \cup {DerivedPath}
                 /\ pc' = "launch"
                 /\ UNCHANGED <<expRes, execRes, ret>>
            ELSE LET x == [execRes EXCEPT !.err =
                             Errorf("failed to pull container", ErrOf("PullContainerImage"))]
                     r == [expRes EXCEPT !.pass = FALSE]
                 IN /\ err' = ErrOf("PullContainerImage")
                    /\ execRes' = x
                    /\ expRes' = r
                    /\ Return(r, x)
                    /\ fs' = fs
    /\ UNCHANGED <<persistent, buildPrivilege, nopriv, containerPath, dirIdx,
                   res, deferred, provision, launched, round, pruneVars, outVars>>

\* createMPIContainer: builder.Load(&mpiCfg.Implem)
CreateLoadBuilder ==
    /\ pc = "cmc_load"
    /\ \E ok \in BOOLEAN :
         /\ calls' = Append(calls, Call("Load", ok))
         /\ res' = [res EXCEPT !.err = IF ok THEN NilErr ELSE ErrOf("Load")]
         /\ pc' = IF ok THEN "cmc_deffile" ELSE "save_create"
    /\ UNCHANGED <<persistent, buildPrivilege, nopriv, containerPath, fs, dirIdx,
                   expRes, execRes, err, deferred, provision, launched, ret, round, pruneVars, outVars>>

\* createMPIContainer going on to the image creation whatever
\* GenerateDeffile reported
GenerateDeffileIgnoreErr ==
    /\ pc = "cmc_deffile"
    /\ \E ok \in BOOLEAN :
         /\ calls' = Append(calls, Call("GenerateDeffile", ok))
         /\ res' = IF ok THEN [res EXCEPT !.err = NilErr]
                   ELSE [err |-> ErrOf("GenerateDeffile"), out |-> "GenerateDeffile"]
         /\ pc' = "cmc_create"
    /\ UNCHANGED <<persistent, buildPrivilege, nopriv, containerPath, fs, dirIdx,
                   expRes, execRes, err, deferred, provision, launched, ret,
                   round, pruneVars, outVars>>

\* createMPIContainer: b.GenerateDeffile
GenerateDeffile ==
    /\ pc = "cmc_deffile"
    /\ \E ok \in BOOLEAN :
         /\ calls' = Append(calls, Call("GenerateDeffile", ok))
         /\ res' = IF ok THEN [res EXCEPT !.err = NilErr]
                   ELSE [err |-> ErrOf("GenerateDeffile"), out |-> "GenerateDeffile"]
         /\ pc' = IF ok THEN "cmc_create" ELSE "save_create"
    /\ UNCHANGED <<persistent, buildPrivilege, nopriv, containerPath, fs, dirIdx,
                   expRes, execRes, err, deferred, provision, launched, ret, round, pruneVars, outVars>>

\* createMPIContainer: container.Create; on success createNewContainer
\* returns res and Run goes on with the launcher.
CreateContainer ==
    /\ pc = "cmc_create"
    /\ \E ok \in BOOLEAN :
         /\ calls' = Append(calls, Call("Create", ok))
         /\ IF ok
            THEN /\ res' = [res EXCEPT !.err = NilErr]
                 /\ execRes' = [res EXCEPT !.err = NilErr]
                 /\ fs' = fs \cup {DerivedPath}
                 /\ pc' = "launch"
            ELSE /\ res' = [err |-> ErrOf("Create"), out |-> "Create"]
                 /\ execRes' = execRes
                 /\ fs' = fs
                 /\ pc' = "save_create"
    /\ UNCHANGED <<persistent, buildPrivilege, nopriv, containerPath, dirIdx,
                   expRes, err, deferred, provision, launched, ret, round, pruneVars, outVars>>

\* the creation failure persisted in createNewContainer and once more by Run
SaveErrorDetailsCreateTwice ==
    /\ pc = "save_create"
    /\ \E ok \in BOOLEAN, ok2 \in BOOLEAN :
         LET inner == IF ok THEN Errorf("failed to create container", res.err)
                      ELSE Errorf("failed to save error details", ErrOf("SaveErrorDetails"))
             x == [res EXCEPT !.err = Errorf("failed to create container", err)]
             r == [expRes EXCEPT !.pass = FALSE]
         IN /\ calls' = calls \o <<Call("SaveErrorDetails", ok), Call("SaveErrorDetails", ok2)>>
            /\ res' = [res EXCEPT !.err = inner]
            /\ execRes' = x
            /\ expRes' = r
            /\ Return(r, x)
    /\ UNCHANGED <<persistent, buildPrivilege, nopriv, containerPath, fs, dirIdx,
                   err, deferred, provision, launched, round, pruneVars, outVars>>

\* createNewContainer: launcher.SaveErrorDetails after createMPIContainer
\* failed (its err is a local of createNewContainer), then Run's handling of
\* the returned error, which formats Run's own err.
SaveErrorDetailsCreate ==
    /\ pc = "save_create"
    /\ \E ok \in BOOLEAN :
         LET inner == IF ok THEN Errorf("failed to create container", res.err)
                      ELSE Errorf("failed to save error details", ErrOf("SaveErrorDetails"))
             x == [res EXCEPT !.err = Errorf("failed to create container", err)]
             r == [expRes EXCEPT !.pass = FALSE]
         IN /\ calls' = Append(calls, Call("SaveErrorDetails", ok))
            /\ res' = [res EXCEPT !.err = inner]
            /\ execRes' = x
            /\ expRes' = r
            /\ Return(r, x)
    /\ UNCHANGED <<persistent, buildPrivilege, nopriv, containerPath, fs, dirIdx,
                   err, deferred, provision, launched, round, pruneVars, outVars>>

\* launcher.Run with the two tests in the other order: the error first
LauncherRunErrFirst ==
    /\ pc = "launch"
    /\ \E pass \in BOOLEAN, ok \in BOOLEAN :
         LET r == [pass |-> pass, note |-> "launcher note"]
             x == [err |-> IF ok THEN NilErr ELSE ErrOf("launcher.Run"),
                   out |-> "launcher.Run"]
         IN /\ calls' = Append(calls, Call("launcher.Run", ok))
            /\ launched' = [called |-> TRUE, exp |-> r, exec |-> x]
            /\ expRes' = r
            /\ IF x.err # NilErr
               THEN /\ execRes' = [x EXCEPT !.err =
                                     Errorf("failed to run experiment", x.err)]
                    /\ pc' = "save_run"
                    /\ ret' = ret
               ELSE IF ~r.pass
                    THEN /\ execRes' = x
                         /\ Return(r, x)
                    ELSE /\ execRes' = x
                         /\ pc' = "analyze"
                         /\ ret' = ret
    /\ UNCHANGED <<persistent, buildPrivilege, nopriv, containerPath, fs, dirIdx,
                   err, res, deferred, provision, round, pruneVars, outVars>>

\* launcher.Run and the two tests on its results: a failing outcome is
\* returned as it is; an error is wrapped and the persister is called next.
LauncherRun ==
    /\ pc = "launch"
    /\ \E pass \in BOOLEAN, ok \in BOOLEAN :
         LET r == [pass |-> pass, note |-> "launcher note"]
             x == [err |-> IF ok THEN NilErr ELSE ErrOf("launcher.Run"),
                   out |-> "launcher.Run"]
         IN /\ calls' = Append(calls, Call("launcher.Run", ok))
            /\ launched' = [called |-> TRUE, exp |-> r, exec |-> x]
            /\ expRes' = r
            /\ IF ~r.pass
               THEN /\ execRes' = x
                    /\ Return(r, x)
               ELSE IF x.err # NilErr
                    THEN /\ execRes' = [x EXCEPT !.err =
                                          Errorf("failed to run experiment", x.err)]
                         /\ pc' = "save_run"
                         /\ ret' = ret
                    ELSE /\ execRes' = x
                         /\ pc' = "analyze"
                         /\ ret' = ret
    /\ UNCHANGED <<persistent, buildPrivilege, nopriv, containerPath, fs, dirIdx,
                   err, res, deferred, provision, round, pruneVars, outVars>>

\* launcher.SaveErrorDetails after a failed run, then the return
SaveErrorDetailsRun ==
    /\ pc = "save_run"
    /\ \E ok \in BOOLEAN :
         LET e == IF ok THEN NilErr ELSE ErrOf("SaveErrorDetails")
             x == IF ok THEN execRes
                  ELSE [execRes EXCEPT !.err = Errorf("failed to save error details", e)]
             r == [expRes EXCEPT !.pass = FALSE]
         IN /\ calls' = Append(calls, Call("SaveErrorDetails", ok))
            /\ err' = e
            /\ execRes' = x
            /\ expRes' = r
            /\ Return(r, x)
    /\ UNCHANGED <<persistent, buildPrivilege, nopriv, containerPath, fs, dirIdx,
                   res, deferred, provision, launched, round, pruneVars, outVars>>

\* processOutput whose failure leaves the launcher's pass flag in place
ProcessOutputKeepsPass ==
    /\ pc = "analyze"
    /\ \E ok \in BOOLEAN :
         LET e == IF ok THEN NilErr ELSE ErrOf("processOutput")
             x == IF ok THEN execRes
                  ELSE [execRes EXCEPT !.err = Errorf("failed to process output", e)]
             r == IF ok THEN [pass |-> TRUE, note |-> "analysis note"]
                  ELSE expRes
         IN /\ calls' = Append(calls, Call("processOutput", ok))
            /\ err' = e
            /\ execRes' = x
            /\ expRes' = r
            /\ Return(r, x)
    /\ UNCHANGED <<persistent, buildPrivilege, nopriv, containerPath, fs, dirIdx,
                   res, deferred, provision, launched, round, pruneVars, outVars>>

\* processOutput, which fills in the outcome's note, and the end of Run
ProcessOutput ==
    /\ pc = "analyze"
    /\ \E ok \in BOOLEAN :
         LET e == IF ok THEN NilErr ELSE ErrOf("processOutput")
             x == IF ok THEN execRes
                  ELSE [execRes EXCEPT !.err = Errorf("failed to process output", e)]
             r == IF ok THEN [pass |-> TRUE, note |-> "analysis note"]
                  ELSE [expRes EXCEPT !.pass = FALSE]
         IN /\ calls' = Append(calls, Call("processOutput", ok))
            /\ err' = e
            /\ execRes' = x
            /\ expRes' = r
            /\ Return(r, x)
    /\ UNCHANGED <<persistent, buildPrivilege, nopriv, containerPath, fs, dirIdx,
                   res, deferred, provision, launched, round, pruneVars, outVars>>

\* The deferred function writing into the results of Run, as it would with
\* named results
UninstallHostNamedResult ==
    /\ pc = "defer"
    /\ \E ok \in BOOLEAN :
         LET x == [err |-> IF ok THEN NilErr ELSE ErrOf("UninstallHost"),
                   out |-> "UninstallHost"]
         IN /\ calls' = Append(calls, Call("UninstallHost", ok))
            /\ execRes' = x
            /\ ret' = [ret EXCEPT !.exec = x]
            /\ pc' = IF ok THEN "returned" ELSE "fatal"
    /\ UNCHANGED <<persistent, buildPrivilege, nopriv, containerPath, fs, dirIdx,
                   expRes, err, res, deferred, provision, launched,
                   round, pruneVars, outVars>>

\* The deferred function only logging a failed uninstall (log.Printf in
\* place of log.Fatalf): Run gives control back all the same
UninstallHostLogsOnly ==
    /\ pc = "defer"
    /\ \E ok \in BOOLEAN :
         /\ calls' = Append(calls, Call("UninstallHost", ok))
         /\ execRes' = [err |-> IF ok THEN NilErr ELSE ErrOf("UninstallHost"),
                        out |-> "UninstallHost"]
         /\ pc' = "returned"
    /\ UNCHANGED <<persistent, buildPrivilege, nopriv, containerPath, fs, dirIdx,
                   expRes, err, res, deferred, provision, launched, ret,
                   round, pruneVars, outVars>>

\* The deferred function: b.UninstallHost overwrites the local execRes (the
\* returned values are already fixed); its failure ends the process.
UninstallHost ==
    /\ pc = "defer"
    /\ \E ok \in BOOLEAN :
         /\ calls' = Append(calls, Call("UninstallHost", ok))
         /\ execRes' = [err |-> IF ok THEN NilErr ELSE ErrOf("UninstallHost"),
                        out |-> "UninstallHost"]
         /\ pc' = IF ok THEN "returned" ELSE "fatal"
    /\ UNCHANGED <<persistent, buildPrivilege, nopriv, containerPath, fs, dirIdx,
                   expRes, err, res, deferred, provision, launched, ret, round, pruneVars, outVars>>

Next ==
    \/ SetExperimentCfg
    \/ LoadBuilder
    \/ InstallOnHost
    \/ SaveErrorDetailsInstall
    \/ PrepareContainerImage
    \/ PullContainerImage
    \/ CreateLoadBuilder
    \/ GenerateDeffile
    \/ CreateContainer
    \/ SaveErrorDetailsCreate
    \/ LauncherRun
    \/ SaveErrorDetailsRun
    \/ ProcessOutput
    \/ UninstallHost

Spec == Init /\ [][Next]_vars

----------------------------------------------------------------------------
(* Pruning *)

MaxExperiments == 3
MaxResults == 2

Versions == {"3.1.4", "4.0.0"}
Distros == {"ubuntu", "centos"}

\* the fields of ContainerConfig that tell experiments apart
ContainerConfig == [host : Versions, cont : Versions, distro : Distros]

\* the fields of results.Result that Pruning reads
Result == [host : Versions, cont : Versions]

SeqsUpTo(S, n) == UNION {[1..k -> S] : k \in 0..n}

\* the inner loop with || in place of &&
RECURSIVE FoundFromEither(_, _, _)
FoundFromEither(experiment, results, j) ==
    IF j > Len(results) THEN FALSE
    ELSE IF experiment.host = results[j].host \/ experiment.cont = results[j].cont
         THEN TRUE
         ELSE FoundFromEither(experiment, results, j + 1)

\* the inner loop of Pruning from index j on: found, with the break
RECURSIVE FoundFrom(_, _, _)
FoundFrom(experiment, results, j) ==
    IF j > Len(results) THEN FALSE
    ELSE IF experiment.host = results[j].host /\ experiment.cont = results[j].cont
         THEN TRUE
         ELSE FoundFrom(experiment, results, j + 1)

\* the outer loop removing in place: after a removal the next experiment
\* slides into the current index and is never examined
RECURSIVE PruneFromInPlace(_, _, _, _)
PruneFromInPlace(exps, results, i, toRun) ==
    IF i > Len(exps) THEN toRun
    ELSE IF ~FoundFrom(exps[i], results, 1)
         THEN PruneFromInPlace(exps, results, i + 1, Append(toRun, exps[i]))
         ELSE IF i + 1 > Len(exps) THEN toRun
              ELSE PruneFromInPlace(exps, results, i + 2, Append(toRun, exps[i + 1]))

\* the outer loop of Pruning from index i on, toRun being experimentsToRun
RECURSIVE PruneFrom(_, _, _, _)
PruneFrom(exps, results, i, toRun) ==
    IF i > Len(exps) THEN toRun
    ELSE PruneFrom(exps, results, i + 1,
                   IF ~FoundFrom(exps[i], results, 1)
                   THEN Append(toRun, exps[i])
                   ELSE toRun)

Pruning(exps, results) == PruneFrom(exps, results, 1, <<>>)

RunIdle ==
    /\ persistent = FALSE
    /\ buildPrivilege = FALSE
    /\ nopriv = FALSE
    /\ containerPath = ""
    /\ fs = {}
    /\ pc = "idle"
    /\ dirIdx = 1
    /\ expRes = ZeroExp
    /\ execRes = ZeroExec
    /\ err = NilErr
    /\ res = ZeroExec
    /\ deferred = FALSE
    /\ provision = "none"
    /\ launched = [called |-> FALSE, exp |-> ZeroExp, exec |-> ZeroExec]
    /\ calls = <<>>
    /\ ret = [done |-> FALSE, bool |-> FALSE, exp |-> ZeroExp, exec |-> ZeroExec]
    /\ round = 1

InitPruning ==
    /\ RunIdle
    /\ OutIdle
    /\ experiments \in SeqsUpTo(ContainerConfig, MaxExperiments)
    /\ existingResults \in SeqsUpTo(Result, MaxResults)
    /\ experimentsToRun = <<>>
    /\ prunedAgain = <<>>
    /\ ppc = "start"

\* a caller prunes its batch
CallPruning ==
    /\ ppc = "start"
    /\ experimentsToRun' = Pruning(experiments, existingResults)
    /\ ppc' = "pruned"
    /\ UNCHANGED <<experiments, existingResults, prunedAgain, runVars, outVars>>

\* the caller prunes the pruned batch with the same results
CallPruningAgain ==
    /\ ppc = "pruned"
    /\ prunedAgain' = Pruning(experimentsToRun, existingResults)
    /\ ppc' = "again"
    /\ UNCHANGED <<experiments, existingResults, experimentsToRun, runVars, outVars>>

NextPruning ==
    \/ CallPruning
    \/ CallPruningAgain

SpecPruning == InitPruning /\ [][NextPruning]_vars

----------------------------------------------------------------------------
(* Properties of Run *)

Count(op) == Cardinality({i \in DOMAIN calls : calls[i].op = op})
Called(op, ok) == \E i \in DOMAIN calls : calls[i] = Call(op, ok)

\* Run is over: it gave control back, or the process was halted
Finished == pc \in {"returned", "fatal"}

InstallFailed == Called("InstallOnHost", FALSE)
InstallSucceeded == Called("InstallOnHost", TRUE)

\* C1: the returned outcome has Pass = true only if the four directories
\* are in place, the builder was loaded, the host install, the provisioning
\* (build, skip or pull), the launcher and the output analysis were all done
\* and no collaborator of the pipeline reported an error.
C1_PassOnlyAfterAllStages ==
    (ret.done /\ ret.exp.pass) =>
        /\ \A i \in DOMAIN calls : calls[i].op # "UninstallHost" => calls[i].ok
        /\ Range(Dirs) \subseteq fs
        /\ Called("Load", TRUE)
        /\ InstallSucceeded
        /\ provision \in {"skip", "skip_persistent", "build", "pull"}
        /\ provision = "build" => Called("GenerateDeffile", TRUE) /\ Called("Create", TRUE)
        /\ provision = "pull" => Called("PullContainerImage", TRUE)
        /\ Called("launcher.Run", TRUE)
        /\ launched.exp.pass
        /\ Called("processOutput", TRUE)

C1_Witness == pc = "returned" /\ ret.exp.pass /\ provision = "build"

\* C2: once the host install has failed, the persister is called once and
\* Run returns Pass = false, the boolean false and a non-nil error.
C2_InstallFailure ==
    InstallFailed =>
        \/ pc = "save_install" /\ Count("SaveErrorDetails") = 0 /\ ~ret.done
        \/ /\ pc = "returned"
           /\ ret.done
           /\ ~ret.exp.pass
           /\ ret.bool = FALSE
           /\ ret.exec.err # NilErr
           /\ Count("SaveErrorDetails") = 1

C2_Witness == pc = "returned" /\ InstallFailed /\ Called("SaveErrorDetails", FALSE)

\* C3: the host uninstall is called exactly once, as the last call of the
\* Run, when the host install succeeded and the run is not persistent, and
\* never otherwise.
C3_UninstallOnEveryExit ==
    /\ Count("UninstallHost") <= 1
    /\ Count("UninstallHost") = 1 =>
          /\ calls[Len(calls)].op = "UninstallHost"
          /\ InstallSucceeded
          /\ ~persistent
          /\ ret.done
    /\ Finished =>
          Count("UninstallHost") = IF InstallSucceeded /\ ~persistent THEN 1 ELSE 0

C3_Witness ==
    /\ pc = "returned"
    /\ Count("UninstallHost") = 1
    /\ Called("Create", FALSE)

\* C4: with build privilege and an image at the derived path, the
\* provisioning stage calls no collaborator, reports no error and goes on to
\* the launcher.
C4_SkipWhenImageExists ==
    [][(pc = "provision" /\ buildPrivilege /\ PathExists(DerivedPath))
          => (pc' = "launch" /\ calls' = calls /\ ~ret.done')]_vars

\* C5: without build privilege and without the no-priv flag the
\* provisioning stage calls the puller once and never builds.
C5_PullWithoutPrivilege ==
    (~buildPrivilege /\ ~nopriv /\ provision # "none") =>
        /\ provision = "pull"
        /\ Count("GenerateDeffile") = 0
        /\ Count("Create") = 0
        /\ Count("PullContainerImage") = IF pc = "pull" THEN 0 ELSE 1

C5_Witness ==
    /\ ~buildPrivilege
    /\ ~nopriv
    /\ Count("PullContainerImage") = 1
    /\ PathExists(containerPath)
    /\ pc = "returned"

\* C6: when the launcher hands back Pass = false, Run returns that outcome
\* and the launcher's result untouched, and neither the persister nor the
\* analyzer is called.
C6_LogicalFailure ==
    (launched.called /\ ~launched.exp.pass) =>
        /\ ret.done
        /\ ret.exp = launched.exp
        /\ ret.exec = launched.exec
        /\ pc \in {"defer", "returned", "fatal"}
        /\ Count("SaveErrorDetails") = 0
        /\ Count("processOutput") = 0

C6_Witness ==
    /\ pc = "returned"
    /\ launched.called
    /\ ~launched.exp.pass
    /\ launched.exec.err # NilErr

\* the Run met a tooling failure
ToolingFailure ==
    \/ InstallFailed
    \/ provision = "build" /\ \E i \in DOMAIN calls : ~calls[i].ok
    \/ Called("PullContainerImage", FALSE)
    \/ launched.called /\ launched.exp.pass /\ launched.exec.err # NilErr
    \/ Called("processOutput", FALSE)

\* C7: on every tooling-failure path the persister has been called when
\* Run returns.
C7_PersistOnEveryToolingFailure ==
    (ret.done /\ ToolingFailure) => Count("SaveErrorDetails") >= 1

\* the message of the error that made the pipeline fail
OriginalCause ==
    IF InstallFailed THEN "failed to install MPI on host"
    ELSE IF launched.called THEN ErrOf("launcher.Run")[1]
    ELSE IF Called("Create", FALSE) THEN ErrOf("Create")[1]
    ELSE IF Called("GenerateDeffile", FALSE) THEN ErrOf("GenerateDeffile")[1]
    ELSE ErrOf("Load")[1]

\* C8: when the persister fails, the error Run returns still carries the
\* original cause next to the persistence failure; after a failed host
\* install it carries "failed to install MPI on host" whatever the persister
\* did.
C8_OriginalCauseKept ==
    /\ (ret.done /\ Called("SaveErrorDetails", FALSE)) =>
          OriginalCause \in Range(ret.exec.err)
    /\ (ret.done /\ InstallFailed) =>
          "failed to install MPI on host" \in Range(ret.exec.err)

----------------------------------------------------------------------------
(* Properties of Pruning *)

\* no result has both versions of experiment e
NotCovered(e) ==
    ~ \E k \in DOMAIN existingResults :
          existingResults[k].host = e.host /\ existingResults[k].cont = e.cont

\* C9: Pruning returns the subsequence, in order and with duplicates, of
\* the experiments that no result matches on both versions; with no result
\* it returns the experiments unchanged.
C9_PruningSubsequence ==
    ppc # "start" =>
        /\ experimentsToRun = SelectSeq(experiments, NotCovered)
        /\ existingResults = <<>> => experimentsToRun = experiments

C9_Witness ==
    /\ ppc = "pruned"
    /\ Len(experiments) = 3
    /\ Len(experimentsToRun) = 2
    /\ experimentsToRun[1] = experimentsToRun[2]
    /\ \E k \in DOMAIN existingResults :
          /\ existingResults[k].host = experimentsToRun[1].host
          /\ existingResults[k].cont # experimentsToRun[1].cont

\* C10: pruning the pruned experiments with the same results changes nothing.
C10_PruningIdempotent ==
    ppc = "again" => prunedAgain = experimentsToRun

C10_Witness ==
    /\ ppc = "again"
    /\ experimentsToRun # <<>>
    /\ Len(experimentsToRun) < Len(experiments)

----------------------------------------------------------------------------
(* The stages of Run *)

IsMkdir(op) == \E k \in DOMAIN Dirs : op = MkdirOp(Dirs[k])

\* the stage the i-th call belongs to: 1 Configuring, 2 InstallingHost,
\* 3 ProvisioningContainer, 4 Running, 5 Analyzing; 0 for the persister and
\* the uninstall, which belong to no stage
StageAt(i) ==
    LET op == calls[i].op
    IN IF IsMkdir(op) THEN 1
       ELSE IF op \in {"Detect", "InstallOnHost"} THEN 2
       ELSE IF op = "Load"
            THEN IF \E j \in 1..(i - 1) : calls[j].op = "InstallOnHost" THEN 3 ELSE 2
       ELSE IF op \in {"GenerateDeffile", "Create", "PullContainerImage"} THEN 3
       ELSE IF op = "launcher.Run" THEN 4
       ELSE IF op = "processOutput" THEN 5
       ELSE 0

StageCalls == {i \in DOMAIN calls : StageAt(i) # 0}

\* the stages are entered in order, a stage is entered only after the
\* earlier ones completed without error, and nothing follows a failure
StagesInOrder ==
    /\ \A i, j \in StageCalls : i < j => StageAt(i) <= StageAt(j) /\ calls[i].ok
    /\ (\E i \in StageCalls : StageAt(i) >= 2) => Range(Dirs) \subseteq fs
    /\ (\E i \in StageCalls : StageAt(i) >= 3) => InstallSucceeded
    /\ Count("PullContainerImage") = 0 \/ Count("GenerateDeffile") + Count("Create") = 0
    /\ Count("launcher.Run") > 0 =>
          /\ provision # "none"
          /\ provision = "build" => Called("Create", TRUE)
          /\ provision = "pull" => Called("PullContainerImage", TRUE)
    /\ Count("processOutput") > 0 =>
          launched.called /\ launched.exp.pass /\ launched.exec.err = NilErr

\* C11 as stated: the stages are entered in order and each stage's
\* collaborator - directory creation, host install, build or pull, launcher,
\* analyzer - is called at most once in a Run.
C11_StagesInOrderOnceEach ==
    /\ StagesInOrder
    /\ Cardinality({i \in DOMAIN calls : IsMkdir(calls[i].op)}) <= 1
    /\ \A op \in {"InstallOnHost", "GenerateDeffile", "Create", "PullContainerImage",
                  "launcher.Run", "processOutput"} : Count(op) <= 1

\* C11 amended: the stages are entered in order; host install, definition
\* file generation, image creation, pull, launcher and analyzer are called
\* at most once, and directory creation at most once for each of the four
\* directories.
C11_StagesInOrder ==
    /\ StagesInOrder
    /\ \A i, j \in StageCalls :
          (calls[i].op = calls[j].op /\ StageAt(i) = StageAt(j)) => i = j
    /\ Cardinality({i \in DOMAIN calls : IsMkdir(calls[i].op)}) <= Len(Dirs)

C11_Witness ==
    /\ pc = "returned"
    /\ ret.exp.pass
    /\ provision = "build"
    /\ Cardinality({i \in DOMAIN calls : IsMkdir(calls[i].op)}) = Len(Dirs)

MkdirFailed == \E i \in DOMAIN calls : IsMkdir(calls[i].op) /\ ~calls[i].ok

\* C12: when the creation of a directory fails, that call is the last call
\* of the Run - no further directory creation, no builder load, host install,
\* build, pull, launcher, analyzer, persister or uninstall - and Run returns
\* Pass = false with a non-nil error.
C12_ConfigurationFailure ==
    MkdirFailed =>
        /\ IsMkdir(calls[Len(calls)].op)
        /\ \A i \in 1..(Len(calls) - 1) : IsMkdir(calls[i].op) /\ calls[i].ok
        /\ pc = "returned"
        /\ ret.done
        /\ ~ret.exp.pass
        /\ ret.exec.err # NilErr
        /\ "failed to set experiment's configuration" \in Range(ret.exec.err)

C12_Witness ==
    /\ pc = "returned"
    /\ Called(MkdirOp(ContainerBuildDir), FALSE)
    /\ Called(MkdirOp(HostBuildDir), TRUE)

UninstallFailed == Called("UninstallHost", FALSE)

\* C13: when the deferred uninstall fails the process is halted: Run never
\* gives control back, the failed uninstall is the last call, and no step
\* is taken from the halted state, whatever outcome Run had computed.
C13_UninstallFailureHalts ==
    /\ [](UninstallFailed =>
            /\ pc = "fatal"
            /\ calls[Len(calls)] = Call("UninstallHost", FALSE))
    /\ [][pc # "fatal"]_vars

C13_Witness == pc = "fatal" /\ UninstallFailed /\ ret.exp.pass

\* the first call of the Run that reported an error (0 if none did)
FirstFailure ==
    IF \A i \in DOMAIN calls : calls[i].ok THEN 0
    ELSE CHOOSE i \in DOMAIN calls :
            ~calls[i].ok /\ \A j \in 1..(i - 1) : calls[j].ok

\* the error the i-th call reported
UnderlyingAt(i) ==
    IF IsMkdir(calls[i].op) THEN ErrOf("MkdirAll")[1] ELSE ErrOf(calls[i].op)[1]

\* the context Run gives to an error of the i-th call
StageContextAt(i) ==
    LET op == calls[i].op
    IN IF IsMkdir(op) THEN "failed to set experiment's configuration"
       ELSE IF op = "Load"
            THEN IF StageAt(i) = 2 THEN "unable to load a builder"
                 ELSE "failed to create container"
       ELSE IF op = "InstallOnHost" THEN "failed to install MPI on host"
       ELSE IF op \in {"GenerateDeffile", "Create"} THEN "failed to create container"
       ELSE IF op = "PullContainerImage" THEN "failed to pull container"
       ELSE IF op = "launcher.Run" THEN "failed to run experiment"
       ELSE "failed to process output"

\* C14: the error Run returns after a tooling failure names the stage that
\* failed and carries the error that stage's collaborator reported.
C14_ErrorsKeepStageAndCause ==
    (pc = "returned" /\ FirstFailure # 0 /\ ~(launched.called /\ ~launched.exp.pass)) =>
        /\ StageContextAt(FirstFailure) \in Range(ret.exec.err)
        /\ UnderlyingAt(FirstFailure) \in Range(ret.exec.err)

----------------------------------------------------------------------------
(* GetOutputFilename *)

Implems == {"openmpi", "mpich", "intel"}

InitOutput ==
    /\ persistent \in BOOLEAN
    /\ nopriv \in BOOLEAN
    /\ buildPrivilege = FALSE
    /\ containerPath = ""
    /\ fs = {}
    /\ pc = "idle"
    /\ dirIdx = 1
    /\ expRes = ZeroExp
    /\ execRes = ZeroExec
    /\ err = NilErr
    /\ res = ZeroExec
    /\ deferred = FALSE
    /\ provision = "none"
    /\ launched = [called |-> FALSE, exp |-> ZeroExp, exec |-> ZeroExec]
    /\ calls = <<>>
    /\ ret = [done |-> FALSE, bool |-> FALSE, exp |-> ZeroExp, exec |-> ZeroExec]
    /\ round = 1
    /\ PruneIdle
    /\ mpiImplem \in Implems
    /\ netPipe \in BOOLEAN
    /\ imb \in BOOLEAN
    /\ outputFile \in {"", "stale-results.txt"}
    /\ outErr = NilErr
    /\ opc = "start"

\* GetOutputFilename testing the flags in the other order: NetPipe last
GetOutputFilenameNetPipeLast ==
    /\ opc = "start"
    /\ LET f1 == mpiImplem \o "-init-results.txt"
           f2 == IF imb THEN mpiImplem \o "-imb-results.txt" ELSE f1
           f3 == IF netPipe THEN mpiImplem \o "-netpipe-results.txt" ELSE f2
       IN outputFile' = f3
    /\ outErr' = NilErr
    /\ opc' = "done"
    /\ UNCHANGED <<mpiImplem, netPipe, imb, runVars, pruneVars>>

\* GetOutputFilename: the three assignments to sysCfg.OutputFile, in order
GetOutputFilename ==
    /\ opc = "start"
    /\ LET f1 == mpiImplem \o "-init-results.txt"
           f2 == IF netPipe THEN mpiImplem \o "-netpipe-results.txt" ELSE f1
           f3 == IF imb THEN mpiImplem \o "-imb-results.txt" ELSE f2
       IN outputFile' = f3
    /\ outErr' = NilErr
    /\ opc' = "done"
    /\ UNCHANGED <<mpiImplem, netPipe, imb, runVars, pruneVars>>

NextOutput == GetOutputFilename

SpecOutput == InitOutput /\ [][NextOutput]_vars

\* C15: GetOutputFilename names the file after IMB if IMB is set, else
\* after NetPipe if NetPipe is set, else "init"; it returns no error and
\* leaves every other setting as it was.
C15_OutputFilename ==
    /\ [](opc = "done" =>
            /\ outputFile = mpiImplem \o (IF imb THEN "-imb-results.txt"
                                          ELSE IF netPipe THEN "-netpipe-results.txt"
                                          ELSE "-init-results.txt")
            /\ outErr = NilErr)
    /\ [][UNCHANGED <<netPipe, imb, persistent, nopriv>>]_vars

C15_Witness == opc = "done" /\ imb /\ netPipe /\ mpiImplem = "openmpi"

----------------------------------------------------------------------------
(* More properties of Run *)

\* C16: the boolean Run returns is false on every return path, the
\* successful one included.
C16_BooleanAlwaysFalse == ret.done => ret.bool = FALSE

C16_Witness == pc = "returned" /\ ret.exp.pass /\ ret.bool = FALSE

\* the calls createMPIContainer made
BuildCalls == {i \in DOMAIN calls : StageAt(i) = 3}

\* C17: on the build path the builder is loaded first, the definition file
\* is generated only with a builder, the image is created only after the
\* definition file was generated, the puller is never called, and a failing
\* sub-step ends the Run with Pass = false and without the launcher.
C17_BuildPath ==
    provision = "build" =>
        /\ Count("PullContainerImage") = 0
        /\ pc = "cmc_load" => BuildCalls = {}
        /\ \A i \in BuildCalls :
              /\ calls[i].op = "GenerateDeffile" =>
                    \E j \in BuildCalls : j < i /\ calls[j] = Call("Load", TRUE)
              /\ calls[i].op = "Create" =>
                    \E j \in BuildCalls : j < i /\ calls[j] = Call("GenerateDeffile", TRUE)
        /\ (\E i \in BuildCalls : ~calls[i].ok) =>
              /\ Count("launcher.Run") = 0
              /\ pc \in {"save_create", "defer", "returned", "fatal"}
              /\ ret.done => ~ret.exp.pass
              /\ \A i, j \in BuildCalls : ~calls[i].ok => j <= i

C17_Witness ==
    /\ provision = "build"
    /\ Called("GenerateDeffile", FALSE)
    /\ pc = "returned"

----------------------------------------------------------------------------
(* The configuration derived twice *)

\* setExperimentCfg is called a second time with the same experiment, on
\* the filesystem the first call left
DeriveAgain ==
    /\ pc = "load"
    /\ round = 1
    /\ round' = 2
    /\ pc' = "cfg"
    /\ dirIdx' = 1
    /\ UNCHANGED <<persistent, buildPrivilege, nopriv, containerPath, fs,
                   expRes, execRes, err, res, deferred, provision, launched,
                   calls, ret, pruneVars, outVars>>

NextDerive ==
    \/ SetExperimentCfg
    \/ DeriveAgain

SpecDerive == Init /\ [][NextDerive]_vars

\* C18: the derivation calls MkdirAll only for a directory that is absent,
\* a directory that exists yields neither a call nor an error, after a
\* successful derivation the four directories exist, and a second
\* derivation creates nothing and does not fail.
C18_DerivationIdempotent ==
    /\ [](pc = "load" => Range(Dirs) \subseteq fs)
    /\ [](round = 2 => pc \in {"cfg", "load"} /\ ~ret.done)
    /\ [][round = 2 => calls' = calls /\ fs' = fs]_vars
    /\ [][calls' # calls =>
            /\ ~PathExists(Dirs[dirIdx])
            /\ \E ok \in BOOLEAN : calls' = Append(calls, Call(MkdirOp(Dirs[dirIdx]), ok))]_vars
    /\ [][(pc = "cfg" /\ PathExists(Dirs[dirIdx])) =>
            (calls' = calls /\ ~ret.done' /\ pc' \in {"cfg", "load"})]_vars

C18_Witness == round = 2 /\ pc = "load" /\ Len(calls) = Len(Dirs)

\* C19: the persister is called at most once in a Run.
C19_PersistAtMostOnce == Count("SaveErrorDetails") <= 1

C19_Witness ==
    /\ pc = "returned"
    /\ Called("Create", FALSE)
    /\ Called("SaveErrorDetails", FALSE)

\* C20: the deferred uninstall leaves the values Run returns as the return
\* statement evaluated them: the caller gets the outcome and the result of
\* the pipeline, not the result of the uninstall, which only the local
\* execRes holds.
C20_UninstallKeepsResults ==
    /\ [][pc = "defer" => ret' = ret /\ expRes' = expRes]_vars
    /\ []((pc = "returned" /\ Called("UninstallHost", TRUE)) =>
            /\ ret.exec.out # "UninstallHost"
            /\ execRes.out = "UninstallHost"
            /\ ret.exp = expRes)

C20_Witness ==
    /\ pc = "returned"
    /\ Called("UninstallHost", TRUE)
    /\ ret.exec.err # NilErr
    /\ execRes.err = NilErr

====
